---- MODULE Spec2Model ----
(***************************************************************************)
(* Model of the FastAPI/OpenTelemetry demo service: the request telemetry  *)
(* middleware (src/app/middleware.py, src/main.py), the shared running     *)
(* counters it maintains, the metric instruments it writes, and the        *)
(* endpoints get_user, create_order, health and error_endpoint.            *)
(*                                                                         *)
(* The middleware is a coroutine with a single suspension point, the       *)
(* `await call_next(request)`.  The code before it and the code after it   *)
(* contain no await, so each runs as one step of the event loop; requests  *)
(* interleave only at the await.  The endpoints contain no await either    *)
(* (they block in time.sleep), so one endpoint invocation is one step.     *)
(***************************************************************************)
EXTENDS Integers, Sequences, FiniteSets, TLC

\* Number of requests the model sends (concurrently or one after another).
MaxRequests == 2

\* `response.status_code >= 400` in the middleware.
ErrorStatusThreshold == 400
\* `user_id < 1000` / `user_id >= 1000` in get_user.
PremiumThreshold == 1000
\* `amount > 100` in create_order.
LargeOrderThreshold == 100
\* Seconds slept by the endpoints, in units of 10 ms.
UserSleep == 2
OrderSleep == 5
\* slow_endpoint: `for i in range(3)` steps of time.sleep(0.7) in
\* src/app/main.py, one time.sleep(2) in src/main.py.
SlowSteps == 3
SlowStepSleep == 70
SlowSleep == 200
\* metrics_demo: `for i in range(5)` user lookups.
DemoLookups == 5

Requests == 1..MaxRequests

\* The module the ASGI server imports to obtain `app`.
\*   "main"           src/main.py            (app + middleware in one module)
\*   "app.main"       src/app/main.py        (app and endpoints only)
\*   "app.middleware" src/app/middleware.py  (imports app.main, then decorates)
EntryPoints == {"main", "app.main", "app.middleware"}

\* Python values carried by a JSON body: integers and strings.
PyInt(n) == [type |-> "int", val |-> n]
PyStr(s) == [type |-> "str", val |-> s]

UserIds == {-5, 0, 1, 5, 999, 1000, 1500}
OrderBodies ==
    { << >> } \cup
    { [amount |-> PyInt(n)] : n \in {50, 100, 101, 150} } \cup
    { [amount |-> PyStr("abc")] }

\* The routes that take no parameter and no body.
PlainRoutes ==
    {"/", "/config", "/health", "/metrics-demo", "/slow", "/error", "/random"}

\* The requests a client may send, one after another.
RequestInputs ==
    { [method |-> "GET", route |-> "/users/{user_id}", user_id |-> u] : u \in UserIds } \cup
    { [method |-> "POST", route |-> "/orders", order |-> o] : o \in OrderBodies } \cup
    { [method |-> "GET", route |-> r] : r \in PlainRoutes }

\* What the random module yields while one endpoint runs: the five
\* random.choice(["standard", "premium"]) and the randint(1, 3) and
\* random.choice(["small", "large"]) of metrics_demo, the position drawn by
\* random.choice([True, True, True, False]) and the randint(1, 100) of
\* random_endpoint.
Draw(user_types, orders, order_size, success, value) ==
    [ user_types |-> user_types, orders |-> orders, order_size |-> order_size,
      success |-> success, value |-> value ]

\* The draws tried when requests come one after another.
RandomDraws ==
    { Draw(<< "premium", "premium", "standard", "standard", "premium" >>,
           3, "large", 1, 1),
      Draw(<< "standard", "standard", "standard", "standard", "standard" >>,
           1, "small", 4, 100),
      Draw(<< "premium", "premium", "premium", "premium", "premium" >>,
           2, "small", 3, 100),
      Draw(<< "standard", "premium", "standard", "premium", "standard" >>,
           1, "large", 2, 50) }

\* The draws tried when requests interleave: one successful, one failing.
InterleavedDraws == { d \in RandomDraws : d.success \in {1, 4} }

\* The requests sent concurrently: one of each way a request can end
\* (200, 400, 500, exception out of the endpoint), the endpoints that draw
\* random numbers and the slow one.
InterleavedInputs ==
    { r \in RequestInputs :
        \/ r.route \in {"/health", "/error", "/slow", "/random", "/metrics-demo"}
        \/ r.route = "/users/{user_id}" /\ r.user_id \in {0}
        \/ r.route = "/orders" /\ r.order \in {[amount |-> PyInt(150)],
                                                [amount |-> PyStr("abc")]} }

VARIABLES
    entry,                    \* module served by the ASGI server
    total_requests,           \* global total_requests
    total_errors,             \* global total_errors
    active_requests,          \* global active_requests
    active_requests_gauge,    \* last value set on the active-requests gauge
    error_rate_gauge,         \* last value set on the error-rate gauge
    request_counter,          \* counter: attributes -> sum
    response_time_histogram,  \* histogram: attributes -> [count, sum]
    orders_counter,           \* counter: attributes -> sum
    user_lookups_counter,     \* counter: attributes -> sum
    now,                      \* time.time(), in units of 10 ms
    rq                        \* per request: position and locals of its invocation

vars == << entry, total_requests, total_errors, active_requests,
           active_requests_gauge, error_rate_gauge, request_counter,
           response_time_histogram, orders_counter, user_lookups_counter,
           now, rq >>

----------------------------------------------------------------------------
\* Instruments

\* Counter.add(n, attributes): one time series per attribute set.
CounterAdd(counter, n, attributes) ==
    IF attributes \in DOMAIN counter
    THEN [counter EXCEPT ![attributes] = @ + n]
    ELSE counter @@ (attributes :> n)

\* One Counter.add call: the amount and the attributes.
Add(n, attributes) == [n |-> n, attributes |-> attributes]

\* A sequence of Counter.add calls applied in order.
RECURSIVE CounterAddAll(_, _)
CounterAddAll(counter, adds) ==
    IF adds = << >> THEN counter
    ELSE CounterAddAll(CounterAdd(counter, adds[1].n, adds[1].attributes),
                       Tail(adds))

\* Histogram.record(value, attributes), kept as count and sum per series.
HistogramRecord(histogram, value, attributes) ==
    IF attributes \in DOMAIN histogram
    THEN [histogram EXCEPT ![attributes] =
             [count |-> @.count + 1, sum |-> @.sum + value]]
    ELSE histogram @@ (attributes :> [count |-> 1, sum |-> value])

\* Sum of a counter over the series whose attributes satisfy a field test.
RECURSIVE SumOver(_, _)
SumOver(counter, keys) ==
    IF keys = {} THEN 0
    ELSE LET k == CHOOSE x \in keys : TRUE
         IN counter[k] + SumOver(counter, keys \ {k})

----------------------------------------------------------------------------
\* Rationals, for the float the error rate is: num/den with den > 0.
Rat(num, den) == [num |-> num, den |-> den]
RatEq(p, q) == p.num * q.den = q.num * p.den
RatLeq(p, q) == p.num * q.den <= q.num * p.den

----------------------------------------------------------------------------
\* Endpoints.  Each yields what the invocation does: how it ends (outcome),
\* the status left on its own span, the Counter.add calls it reaches on
\* user_lookups_counter (lookups) and on orders_counter (orders), and the
\* time it sleeps.  `module` is the module served, where the two variants of
\* an endpoint differ.

Return(body) == [kind |-> "return", body |-> body]
HTTPException(status_code, detail) ==
    [kind |-> "http_exception", status_code |-> status_code, detail |-> detail]
Raise(exc) == [kind |-> "exception", exc |-> exc]

root(module) ==
    [ lookups     |-> << >>,
      orders      |-> << >>,
      sleep       |-> 0,
      span_status |-> "UNSET",
      outcome     |-> IF module = "main"
                      THEN Return([ message      |-> "FastAPI with Prometheus Metrics!",
                                    metrics_flow |-> "FastAPI → OTEL Collector → Prometheus → Grafana",
                                    endpoints    |-> << "/", "/users/{id}", "/orders",
                                                        "/health", "/metrics-demo" >> ])
                      ELSE Return([ message       |-> "FastAPI with Pydantic OTEL Setup!",
                                    setup         |-> "Clean, type-safe, and validated",
                                    observability |-> << "metrics", "traces", "logs" >> ]) ]

\* "standard" if user_id < 1000 else "premium"
UserLookupType(user_id) ==
    IF user_id < PremiumThreshold THEN "standard" ELSE "premium"

\* Variant of UserType: the threshold itself counted as standard.
UserType_Exclusive(user_id) ==
    IF user_id > PremiumThreshold THEN "premium" ELSE "standard"

\* "premium" if user_id >= 1000 else "standard"
UserType(user_id) ==
    IF user_id >= PremiumThreshold THEN "premium" ELSE "standard"

get_user(user_id) ==
    [ lookups     |-> << Add(1, [user_type |-> UserLookupType(user_id)]) >>,
      orders      |-> << >>,
      sleep       |-> UserSleep,
      span_status |-> IF user_id <= 0 THEN "ERROR" ELSE "UNSET",
      outcome     |-> IF user_id <= 0
                      THEN HTTPException(400, "User ID must be positive")
                      ELSE Return([user_id |-> user_id,
                                   name    |-> << "User", user_id >>,
                                   type    |-> UserType(user_id)]) ]

\* Only src/app/main.py has this endpoint.
get_config ==
    [ lookups     |-> << >>,
      orders      |-> << >>,
      sleep       |-> 0,
      span_status |-> "UNSET",
      outcome     |-> Return([ message    |-> "OTEL Configuration",
                               setup_type |-> "Pydantic-based",
                               components |->
                                   [ k \in {"tracer", "meter", "telemetry.logger"} |->
                                       CASE k = "tracer" -> "Tracer"
                                         [] k = "meter"  -> "Meter"
                                         [] OTHER        -> "Logger" ] ]) ]

\* order.get("amount", 0)
OrderAmount(order) ==
    IF "amount" \in DOMAIN order THEN order.amount ELSE PyInt(0)

\* `amount > 100` is defined between numbers only; Python raises TypeError
\* when amount is a string.
Comparable(amount) == amount.type = "int"

\* Variant of OrderSize: the threshold itself counted as large.
OrderSize_Inclusive(amount) ==
    IF amount.val >= LargeOrderThreshold THEN "large" ELSE "small"

\* "large" if amount > 100 else "small"
OrderSize(amount) ==
    IF amount.val > LargeOrderThreshold THEN "large" ELSE "small"

create_order(order, time) ==
    LET amount == OrderAmount(order) IN
    IF Comparable(amount)
    THEN [ lookups     |-> << >>,
           orders      |-> << Add(1, [order_size |-> OrderSize(amount),
                                      currency   |-> "USD"]) >>,
           sleep       |-> OrderSleep,
           span_status |-> "UNSET",
           outcome     |-> Return([order_id |-> << "order", (time + OrderSleep) \div 100 >>,
                                   amount   |-> amount,
                                   status   |-> "created"]) ]
    ELSE [ lookups     |-> << >>,
           orders      |-> << >>,
           sleep       |-> 0,
           span_status |-> "ERROR",
           outcome     |-> Raise("TypeError") ]

\* Variant of health: unhealthy once more than one request has been counted.
health_UnderLoad(module) ==
    [ lookups     |-> << >>,
      orders      |-> << >>,
      sleep       |-> 0,
      span_status |-> "UNSET",
      outcome     |-> IF total_requests > 1
                      THEN HTTPException(503, "overloaded")
                      ELSE Return([status |-> "healthy"]) ]

health(module) ==
    [ lookups     |-> << >>,
      orders      |-> << >>,
      sleep       |-> 0,
      span_status |-> "UNSET",
      outcome     |-> IF module = "main"
                      THEN Return([ status  |-> "healthy",
                                    service |-> "fastapi-prometheus-demo",
                                    metrics |-> "enabled" ])
                      ELSE Return([ status        |-> "healthy",
                                    service       |-> "fastapi-clean-demo",
                                    observability |-> "enabled" ]) ]

\* currencies[2] in src/main.py, "USD" in src/app/main.py
DemoCurrency(module) == IF module = "main" THEN "CNF" ELSE "USD"

metrics_demo(module, draw) ==
    [ lookups     |-> [ k \in 1..DemoLookups |->
                          Add(1, [user_type |-> draw.user_types[k]]) ],
      orders      |-> << Add(draw.orders, [order_size |-> draw.order_size,
                                           currency   |-> DemoCurrency(module)]) >>,
      sleep       |-> 0,
      span_status |-> "UNSET",
      outcome     |-> Return([ message   |-> "Demo metrics generated!",
                               generated |-> [ user_lookups |-> DemoLookups,
                                               orders |-> "1-3 random orders" ] ]) ]

slow_endpoint(module) ==
    [ lookups     |-> << >>,
      orders      |-> << >>,
      sleep       |-> IF module = "main" THEN SlowSleep ELSE SlowSteps * SlowStepSleep,
      span_status |-> "UNSET",
      outcome     |-> Return([ message  |-> "Slow operation completed",
                               duration |-> IF module = "main" THEN "2 seconds"
                                            ELSE "~2 seconds" ]) ]

error_endpoint ==
    [ lookups     |-> << >>,
      orders      |-> << >>,
      sleep       |-> 0,
      span_status |-> "ERROR",
      outcome     |-> HTTPException(500, "Demo error for testing metrics") ]

\* random.choice([True, True, True, False])
RandomSuccess(draw) == << TRUE, TRUE, TRUE, FALSE >>[draw.success]

random_endpoint(draw) ==
    [ lookups     |-> << >>,
      orders      |-> << >>,
      sleep       |-> 0,
      span_status |-> IF RandomSuccess(draw) THEN "UNSET" ELSE "ERROR",
      outcome     |-> IF RandomSuccess(draw)
                      THEN Return([result |-> "success", value |-> draw.value])
                      ELSE HTTPException(500, "Random failure") ]

\* A path no route of the served app matches: the router answers 404 and no
\* endpoint (hence no endpoint span) runs.
NotFound ==
    [ lookups     |-> << >>,
      orders      |-> << >>,
      sleep       |-> 0,
      span_status |-> "NONE",
      outcome     |-> HTTPException(404, "Not Found") ]

\* Routing of a request to its endpoint in the served module.
Endpoint(module, request, time, draw) ==
    CASE request.route = "/"                -> root(module)
      [] request.route = "/users/{user_id}" -> get_user(request.user_id)
      [] request.route = "/config"          ->
             IF module = "main" THEN NotFound ELSE get_config
      [] request.route = "/orders"          -> create_order(request.order, time)
      [] request.route = "/health"          -> health(module)
      [] request.route = "/metrics-demo"    -> metrics_demo(module, draw)
      [] request.route = "/slow"            -> slow_endpoint(module)
      [] request.route = "/error"           -> error_endpoint
      [] request.route = "/random"          -> random_endpoint(draw)

\* request.url.path
UrlPath(request) ==
    IF request.route = "/users/{user_id}"
    THEN << "/users", request.user_id >>
    ELSE << request.route >>

\* What `await call_next(request)` yields to the middleware (and what the
\* application yields to the server when no middleware is installed): a
\* returned body is a 200 response, an HTTPException is turned into a
\* response with its status code by the exception handlers that sit inside
\* the middleware, and any other exception is raised at the await.
call_next(outcome) ==
    CASE outcome.kind = "return" ->
           [kind |-> "response", status_code |-> 200, body |-> outcome.body]
      [] outcome.kind = "http_exception" ->
           [kind |-> "response", status_code |-> outcome.status_code,
            body |-> [detail |-> outcome.detail]]
      [] outcome.kind = "exception" ->
           [kind |-> "exception", exc |-> outcome.exc]

----------------------------------------------------------------------------
\* The middleware's arithmetic on the shared counters.

\* active_requests += 1
ActiveAfterStart(active) == active + 1

\* Variant of TotalAfterStart: the request is not counted.
TotalAfterStart_Forgotten(total) == total

\* total_requests += 1
TotalAfterStart(total) == total + 1

\* Variant of ActiveAfterEnd: the decrement applied twice.
ActiveAfterEnd_Twice(active) == active - 2

\* active_requests -= 1
ActiveAfterEnd(active) == active - 1

\* response.status_code >= 400
IsError(status_code) == status_code >= ErrorStatusThreshold

\* Variant of ErrorsAfterEnd: the increment is lost when another request is
\* in flight (a read-modify-write that does not run as one step).
ErrorsAfterEnd_LostUpdate(errors, status_code) ==
    IF IsError(status_code) /\ active_requests = 1 THEN errors + 1 ELSE errors

\* if response.status_code >= 400: total_errors += 1
ErrorsAfterEnd(errors, status_code) ==
    IF IsError(status_code) THEN errors + 1 ELSE errors

\* Variant of ErrorRate: floor division (`//`) in place of `/`.
ErrorRate_FloorDivision(errors, total) ==
    IF total > 0 THEN Rat((errors \div total) * 100, 1) ELSE Rat(0, 1)

\* (total_errors / total_requests) * 100 if total_requests > 0 else 0
ErrorRate(errors, total) ==
    IF total > 0 THEN Rat(errors * 100, total) ELSE Rat(0, 1)

\* `return response`: the value the middleware hands to its caller.
ReturnValue(response) == response

\* Variant of Propagated: the exception is caught and answered with a 500.
Propagated_AsResponse(exception) ==
    [kind |-> "response", status_code |-> 500,
     body |-> [detail |-> "Internal Server Error"]]

\* An exception raised at the await is not caught by the middleware: it
\* leaves the `with` block and reaches the caller.
Propagated(exception) == exception

\* Gauge.set(value)
GaugeSet(value) == [set |-> TRUE, value |-> value]
GaugeUnset == [set |-> FALSE]

\* `@app.middleware("http")` runs when the module that holds it is imported.
\* src/main.py holds the decorator itself; src/app/middleware.py holds it and
\* imports app.main; src/app/main.py neither holds it nor imports
\* app.middleware.
MiddlewareRegistered(module) == module \in {"main", "app.middleware"}

----------------------------------------------------------------------------
\* State after the served module has been imported: counters at zero, no
\* gauge set, no series recorded, no request received.
Init ==
    /\ entry \in EntryPoints
    /\ total_requests = 0
    /\ total_errors = 0
    /\ active_requests = 0
    /\ active_requests_gauge = GaugeUnset
    /\ error_rate_gauge = GaugeUnset
    /\ request_counter = << >>
    /\ response_time_histogram = << >>
    /\ orders_counter = << >>
    /\ user_lookups_counter = << >>
    /\ now = 0
    /\ rq = [i \in Requests |-> [pc |-> "idle"]]

\* Requests are numbered in their order of arrival.
NextToArrive(i) ==
    /\ rq[i].pc = "idle"
    /\ i > 1 => rq[i - 1].pc # "idle"

StartSteps ==
    << "start_time", "active_requests += 1", "total_requests += 1",
       "active_requests_gauge.set", "span.start", "span.set_attribute(request)" >>

EndSteps ==
    << "duration", "active_requests -= 1", "active_requests_gauge.set",
       "request_counter.add", "response_time_histogram.record",
       "total_errors update", "error_rate_gauge.set",
       "span.set_attribute(response)", "return response", "span.end" >>

UnwindSteps == << "span.end", "raise" >>

\* Variant of MiddlewareStart: the gauge is published before the counters
\* are incremented.
MiddlewareStart_GaugeFirst(i, request) ==
    /\ NextToArrive(i)
    /\ MiddlewareRegistered(entry)
    /\ active_requests_gauge' = GaugeSet(active_requests)
    /\ active_requests' = ActiveAfterStart(active_requests)
    /\ total_requests' = TotalAfterStart(total_requests)
    /\ rq' = [rq EXCEPT ![i] =
                [ pc            |-> "awaiting",
                  request       |-> request,
                  intercepted   |-> TRUE,
                  start_time    |-> now,
                  active_before |-> active_requests,
                  span          |-> [ name       |-> "http_request",
                                      state      |-> "open",
                                      ended      |-> 0,
                                      attributes |-> {"http.method", "http.url"} ],
                  steps         |-> << "start_time", "active_requests_gauge.set",
                                       "active_requests += 1", "total_requests += 1",
                                       "span.start", "span.set_attribute(request)" >> ]]
    /\ UNCHANGED << entry, total_errors, error_rate_gauge, request_counter,
                    response_time_histogram, orders_counter,
                    user_lookups_counter, now >>

\* The middleware up to its await: request i arrives at an app that has the
\* middleware installed.
MiddlewareStart(i, request) ==
    /\ NextToArrive(i)
    /\ MiddlewareRegistered(entry)
    /\ active_requests' = ActiveAfterStart(active_requests)
    /\ total_requests' = TotalAfterStart(total_requests)
    /\ active_requests_gauge' = GaugeSet(active_requests')
    /\ rq' = [rq EXCEPT ![i] =
                [ pc            |-> "awaiting",
                  request       |-> request,
                  intercepted   |-> TRUE,
                  start_time    |-> now,
                  active_before |-> active_requests,
                  span          |-> [ name       |-> "http_request",
                                      state      |-> "open",
                                      ended      |-> 0,
                                      attributes |-> {"http.method", "http.url"} ],
                  steps         |-> StartSteps ]]
    /\ UNCHANGED << entry, total_errors, error_rate_gauge, request_counter,
                    response_time_histogram, orders_counter,
                    user_lookups_counter, now >>

\* Request i arrives at an app on which no middleware was registered: the
\* router is called directly.
DirectDispatch(i, request) ==
    /\ NextToArrive(i)
    /\ ~MiddlewareRegistered(entry)
    /\ rq' = [rq EXCEPT ![i] =
                [ pc          |-> "direct",
                  request     |-> request,
                  intercepted |-> FALSE,
                  steps       |-> << >> ]]
    /\ UNCHANGED << entry, total_requests, total_errors, active_requests,
                    active_requests_gauge, error_rate_gauge, request_counter,
                    response_time_histogram, orders_counter,
                    user_lookups_counter, now >>

\* The endpoint of request i runs to its end (call_next, or the router when
\* there is no middleware), the random module yielding `draw`.
CallNext(i, draw) ==
    /\ rq[i].pc \in {"awaiting", "direct"}
    /\ LET request    == rq[i].request
           invocation == Endpoint(entry, request, now, draw)
           downstream == call_next(invocation.outcome)
       IN
       /\ now' = now + invocation.sleep
       /\ user_lookups_counter' =
            CounterAddAll(user_lookups_counter, invocation.lookups)
       /\ orders_counter' = CounterAddAll(orders_counter, invocation.orders)
       /\ rq' = [rq EXCEPT ![i] =
                   [ field \in DOMAIN rq[i] \cup {"downstream", "endpoint_span_status"} |->
                       CASE field = "downstream" -> downstream
                         [] field = "endpoint_span_status" -> invocation.span_status
                         [] field = "pc" ->
                              IF rq[i].pc = "direct" THEN "done"
                              ELSE IF downstream.kind = "response" THEN "returned"
                              ELSE "raised"
                         [] OTHER -> rq[i][field] ]]
    /\ UNCHANGED << entry, total_requests, total_errors, active_requests,
                    active_requests_gauge, error_rate_gauge, request_counter,
                    response_time_histogram >>

\* The middleware after its await, when call_next returned a response.
MiddlewareEnd(i) ==
    /\ rq[i].pc = "returned"
    /\ LET request  == rq[i].request
           response == rq[i].downstream
           duration == now - rq[i].start_time
       IN
       /\ active_requests' = ActiveAfterEnd(active_requests)
       /\ active_requests_gauge' = GaugeSet(active_requests')
       /\ request_counter' =
            CounterAdd(request_counter, 1,
                       [ method      |-> request.method,
                         endpoint    |-> UrlPath(request),
                         status_code |-> response.status_code ])
       /\ response_time_histogram' =
            HistogramRecord(response_time_histogram, duration,
                            [ method   |-> request.method,
                              endpoint |-> UrlPath(request) ])
       /\ total_errors' = ErrorsAfterEnd(total_errors, response.status_code)
       /\ error_rate_gauge' = GaugeSet(ErrorRate(total_errors', total_requests))
       /\ rq' = [rq EXCEPT ![i] =
                   [ field \in DOMAIN rq[i] \cup {"duration", "result"} |->
                       CASE field = "duration" -> duration
                         [] field = "result" -> ReturnValue(response)
                         [] field = "pc" -> "done"
                         [] field = "steps" -> rq[i].steps \o EndSteps
                         [] field = "span" ->
                              [ rq[i].span EXCEPT
                                  !.state = "ended",
                                  !.ended = @ + 1,
                                  !.attributes = @ \cup {"http.status_code",
                                                         "http.response_time_ms"} ]
                         [] OTHER -> rq[i][field] ]]
    /\ UNCHANGED << entry, total_requests, orders_counter,
                    user_lookups_counter, now >>

\* Variant of MiddlewareUnwind: the span is ended by a call on the returning
\* path only, so an exception leaves it open.
MiddlewareUnwind_SpanLeftOpen(i) ==
    /\ rq[i].pc = "raised"
    /\ rq' = [rq EXCEPT ![i] =
                [ field \in DOMAIN rq[i] \cup {"result"} |->
                    CASE field = "result" -> Propagated(rq[i].downstream)
                      [] field = "pc" -> "done"
                      [] field = "steps" -> rq[i].steps \o << "raise" >>
                      [] OTHER -> rq[i][field] ]]
    /\ UNCHANGED << entry, total_requests, total_errors, active_requests,
                    active_requests_gauge, error_rate_gauge, request_counter,
                    response_time_histogram, orders_counter,
                    user_lookups_counter, now >>

\* The middleware after its await, when call_next raised: the exception
\* leaves the `with` block, which ends the span, and then the coroutine.
MiddlewareUnwind(i) ==
    /\ rq[i].pc = "raised"
    /\ rq' = [rq EXCEPT ![i] =
                [ field \in DOMAIN rq[i] \cup {"result"} |->
                    CASE field = "result" -> Propagated(rq[i].downstream)
                      [] field = "pc" -> "done"
                      [] field = "steps" -> rq[i].steps \o UnwindSteps
                      [] field = "span" ->
                           [ rq[i].span EXCEPT !.state = "ended", !.ended = @ + 1 ]
                      [] OTHER -> rq[i][field] ]]
    /\ UNCHANGED << entry, total_requests, total_errors, active_requests,
                    active_requests_gauge, error_rate_gauge, request_counter,
                    response_time_histogram, orders_counter,
                    user_lookups_counter, now >>

\* Requests arrive while others are in flight.
Next ==
    \/ \E i \in Requests, request \in InterleavedInputs : MiddlewareStart(i, request)
    \/ \E i \in Requests, request \in InterleavedInputs : DirectDispatch(i, request)
    \/ \E i \in Requests, draw \in InterleavedDraws : CallNext(i, draw)
    \/ \E i \in Requests : MiddlewareEnd(i)
    \/ \E i \in Requests : MiddlewareUnwind(i)

Spec == Init /\ [][Next]_vars

\* No request is in flight.
Quiescent == \A i \in Requests : rq[i].pc \in {"idle", "done"}

\* Requests arrive one after another, each after the previous one has ended.
NextSequential ==
    \/ \E i \in Requests, request \in RequestInputs :
          Quiescent /\ MiddlewareStart(i, request)
    \/ \E i \in Requests, request \in RequestInputs :
          Quiescent /\ DirectDispatch(i, request)
    \/ \E i \in Requests, draw \in RandomDraws : CallNext(i, draw)
    \/ \E i \in Requests : MiddlewareEnd(i)
    \/ \E i \in Requests : MiddlewareUnwind(i)

SpecSequential == Init /\ [][NextSequential]_vars

----------------------------------------------------------------------------
\* Vocabulary of the properties.

Started(i) == rq[i].pc # "idle"
\* The middleware was invoked for request i.
Intercepted(i) == Started(i) /\ rq[i].intercepted
\* The invocation for request i has ended (returned or raised).
Ended(i) == rq[i].pc = "done"
\* The endpoint of request i has run.
Handled(i) == Started(i) /\ "downstream" \in DOMAIN rq[i]
Returned(i) == Handled(i) /\ rq[i].downstream.kind = "response"
Raised(i) == Handled(i) /\ rq[i].downstream.kind = "exception"
Count(seq, x) == Cardinality({k \in DOMAIN seq : seq[k] = x})
Occurs(seq, x) == \E k \in DOMAIN seq : seq[k] = x
CounterValue(counter, attributes) ==
    IF attributes \in DOMAIN counter THEN counter[attributes] ELSE 0

----------------------------------------------------------------------------
\* C1: for every request handled by the middleware, whether call_next
\* returns or raises, active_requests is decremented exactly once, so that
\* once no invocation is in progress active_requests is back at the value it
\* had before the requests started (0).
ActiveRequestsRestored ==
    /\ \A i \in Requests :
         (Intercepted(i) /\ Ended(i)) =>
             Count(rq[i].steps, "active_requests -= 1") = 1
    /\ Quiescent => active_requests = 0

\* C2: in every reachable state, under any interleaving of requests and any
\* mix of returning and raising endpoints, active_requests >= 0.
ActiveRequestsNonNegative == active_requests >= 0

\* C2 witness: two requests overlapped, one ended by a response and one by
\* an exception.
MixedOutcomesOverlapped ==
    \E i, j \in Requests :
        /\ Intercepted(i) /\ Ended(i) /\ Returned(i)
        /\ Intercepted(j) /\ Ended(j) /\ Raised(j)
        /\ (rq[i].active_before > 0 \/ rq[j].active_before > 0)

\* C3: after any sequence of N requests has passed through the middleware,
\* E of them with a response status >= 400, the value last published to the
\* error-rate gauge is E/N * 100 (and the rate is 0 when N = 0).
ErrorRateAfterSequence ==
    LET passed == {i \in Requests : Intercepted(i) /\ Ended(i)}
        N == Cardinality(passed)
        E == Cardinality({i \in passed :
                 Returned(i) /\ rq[i].downstream.status_code >= 400})
    IN Quiescent =>
         /\ N > 0 => /\ error_rate_gauge.set
                     /\ RatEq(error_rate_gauge.value, Rat(E * 100, N))
         /\ N = 0 => RatEq(ErrorRate(total_errors, total_requests), Rat(0, 1))

\* C4: if the endpoint raises before producing a response, the middleware's
\* post-processing still executes: duration computed, active-requests gauge
\* republished, request counter and histogram recorded, error rate
\* recomputed and published, span given its attributes and closed.
PostProcessingOnRaise ==
    \A i \in Requests :
        (Intercepted(i) /\ Ended(i) /\ Raised(i)) =>
            /\ "duration" \in DOMAIN rq[i]
            /\ \A step \in {"duration", "active_requests -= 1",
                            "request_counter.add",
                            "response_time_histogram.record",
                            "total_errors update", "error_rate_gauge.set",
                            "span.set_attribute(response)", "span.end"} :
                   Occurs(rq[i].steps, step)
            /\ Count(rq[i].steps, "active_requests_gauge.set") = 2
            /\ {"http.status_code", "http.response_time_ms"}
                   \subseteq rq[i].span.attributes
            /\ rq[i].span.state = "ended"

\* C5: under any interleaving of in-flight requests no counter update is
\* lost: once k requests have started and all have completed normally,
\* total_requests = k, active_requests = 0 and total_errors is the number of
\* those with status >= 400.
NoLostUpdates ==
    LET started == {i \in Requests : Intercepted(i)}
        failed == {i \in started : rq[i].downstream.status_code >= 400}
    IN (\A i \in started : Ended(i) /\ Returned(i)) =>
         /\ total_requests = Cardinality(started)
         /\ active_requests = 0
         /\ total_errors = Cardinality(failed)

\* C5 witness: two requests were in flight together, both completed
\* normally, one of them with a status >= 400.
OverlappedAllCompleted ==
    /\ \A i \in Requests : Intercepted(i) /\ Ended(i) /\ Returned(i)
    /\ \E i \in Requests : rq[i].active_before > 0
    /\ \E i \in Requests : rq[i].downstream.status_code >= 400
    /\ \E i \in Requests : rq[i].downstream.status_code < 400

\* C6: the middleware neither swallows nor alters the downstream outcome: a
\* response returned by call_next is returned unchanged, an exception raised
\* by call_next leaves the middleware as that exception.
OutcomePreserved ==
    \A i \in Requests :
        (Intercepted(i) /\ Ended(i)) =>
            /\ rq[i].result = rq[i].downstream
            /\ Raised(i) => rq[i].result.kind = "exception"
            /\ Returned(i) =>
                 /\ rq[i].result.kind = "response"
                 /\ rq[i].result.status_code = rq[i].downstream.status_code

\* C6 witness: one invocation ended by the endpoint's exception, another by
\* a 400 response.
BothOutcomesDelivered ==
    \E i, j \in Requests :
        /\ Intercepted(i) /\ Ended(i) /\ rq[i].result.kind = "exception"
        /\ Intercepted(j) /\ Ended(j) /\ rq[j].result.kind = "response"
        /\ rq[j].result.status_code = 400

\* C7: for every integer user id, GET /users/{id} yields 400 when id <= 0,
\* 200 with type "standard" when 1 <= id <= 999, and 200 with type "premium"
\* when id >= 1000.
GetUserContract ==
    \A i \in Requests :
        (Handled(i) /\ rq[i].request.route = "/users/{user_id}") =>
            LET id == rq[i].request.user_id
                response == rq[i].downstream
            IN /\ response.kind = "response"
               /\ id <= 0 => response.status_code = 400
               /\ (1 <= id /\ id <= 999) =>
                     /\ response.status_code = 200
                     /\ response.body.type = "standard"
               /\ id >= 1000 =>
                     /\ response.status_code = 200
                     /\ response.body.type = "premium"

\* C7 witness: /users/1000 answered as premium after /users/0 was answered
\* with 400.
UserThresholdsAnswered ==
    \E i, j \in Requests :
        /\ Handled(i) /\ rq[i].request.route = "/users/{user_id}"
        /\ rq[i].request.user_id = 0 /\ rq[i].downstream.status_code = 400
        /\ Handled(j) /\ rq[j].request.route = "/users/{user_id}"
        /\ rq[j].request.user_id = 1000
        /\ rq[j].downstream.body.type = "premium"

\* C8: for every POST /orders body with a numeric amount (a missing amount
\* counting as 0) the response has status "created" and echoes the amount,
\* and the orders counter is incremented by exactly 1, tagged "large" when
\* amount > 100 and "small" otherwise (100 is small): in the step in which
\* create_order runs, that series grows by 1 and no other series changes.
CreateOrderContract ==
    [][ \A i \in Requests :
          ( /\ rq[i].pc \in {"awaiting", "direct"}
            /\ rq'[i].pc \notin {"awaiting", "direct"}
            /\ rq[i].request.route = "/orders"
            /\ "amount" \in DOMAIN rq[i].request.order =>
                   rq[i].request.order.amount.type = "int" ) =>
              LET amount == IF "amount" \in DOMAIN rq[i].request.order
                            THEN rq[i].request.order.amount.val ELSE 0
                  tagged == [ order_size |-> IF amount > 100 THEN "large" ELSE "small",
                              currency   |-> "USD" ]
              IN /\ rq'[i].downstream.kind = "response"
                 /\ rq'[i].downstream.body.status = "created"
                 /\ rq'[i].downstream.body.amount = PyInt(amount)
                 /\ tagged \in DOMAIN orders_counter'
                 /\ \A series \in DOMAIN orders_counter \cup DOMAIN orders_counter' :
                        CounterValue(orders_counter', series) =
                            CounterValue(orders_counter, series)
                                + (IF series = tagged THEN 1 ELSE 0)
      ]_vars

\* C8 witness: an order of exactly 100 and an order without amount were
\* both created and counted.
BoundaryAndDefaultOrders ==
    \E i, j \in Requests :
        /\ Handled(i) /\ rq[i].request.route = "/orders"
        /\ rq[i].request.order = [amount |-> PyInt(100)]
        /\ Handled(j) /\ rq[j].request.route = "/orders"
        /\ rq[j].request.order = << >>
        /\ rq[j].downstream.body.amount = PyInt(0)
        /\ CounterValue(orders_counter,
                        [order_size |-> "small", currency |-> "USD"]) = 2

\* C9: in every state and after any history, GET /error is a 500 response
\* with its span status ERROR and GET /health is a 200 response with status
\* "healthy", whatever the shared counters hold.
ErrorAndHealthFixed ==
    \A i \in Requests :
        Handled(i) =>
            /\ rq[i].request.route = "/error" =>
                 /\ rq[i].downstream.kind = "response"
                 /\ rq[i].downstream.status_code = 500
                 /\ rq[i].endpoint_span_status = "ERROR"
            /\ rq[i].request.route = "/health" =>
                 /\ rq[i].downstream.kind = "response"
                 /\ rq[i].downstream.status_code = 200
                 /\ rq[i].downstream.body.status = "healthy"

\* C9 witness: /health answered while an earlier failed request had already
\* moved the counters, and /error answered too.
HealthAfterErrors ==
    \E i, j \in Requests :
        /\ i < j
        /\ Handled(i) /\ rq[i].request.route = "/error" /\ Ended(i)
        /\ Handled(j) /\ rq[j].request.route = "/health"
        /\ total_errors > 0 /\ total_requests > 1

\* C10: every request dispatched to an endpoint of the app is intercepted by
\* the middleware: total_requests is incremented exactly once per request.
EveryRequestIntercepted ==
    /\ total_requests = Cardinality({i \in Requests : Started(i)})
    /\ \A i \in Requests :
         Started(i) => Count(rq[i].steps, "total_requests += 1") = 1

\* Position of the first and of the last occurrence of a step in a log
\* (0 when it does not occur).
First(seq, x) ==
    IF Occurs(seq, x)
    THEN CHOOSE k \in DOMAIN seq :
             seq[k] = x /\ \A m \in DOMAIN seq : seq[m] = x => k <= m
    ELSE 0
Last(seq, x) ==
    IF Occurs(seq, x)
    THEN CHOOSE k \in DOMAIN seq :
             seq[k] = x /\ \A m \in DOMAIN seq : seq[m] = x => m <= k
    ELSE 0
\* Both steps occur, the first occurrence of x before the last one of y.
Precedes(seq, x, y) ==
    /\ Occurs(seq, x) /\ Occurs(seq, y)
    /\ First(seq, x) < Last(seq, y)

\* C11: the middleware's steps occur in the specified order for every
\* request it handles: active_requests and total_requests are incremented
\* and the gauge published with the incremented value before the span is
\* opened and before the endpoint is invoked; after the endpoint returns,
\* active_requests is decremented and republished before the request counter
\* and the histogram are recorded, which precede the total_errors update and
\* the error-rate publication; every value published to the active-requests
\* gauge equals active_requests at that instant.
MiddlewareStepOrder ==
    /\ \A i \in Requests :
         Intercepted(i) =>
           LET log == rq[i].steps IN
           /\ First(log, "active_requests += 1") < First(log, "active_requests_gauge.set")
           /\ First(log, "total_requests += 1") < First(log, "active_requests_gauge.set")
           /\ First(log, "active_requests += 1") > 0
           /\ First(log, "total_requests += 1") > 0
           /\ First(log, "active_requests_gauge.set") < First(log, "span.start")
           /\ rq[i].span.state \in {"open", "ended"}
           /\ (Ended(i) /\ Returned(i)) =>
                /\ First(log, "span.start") < First(log, "active_requests -= 1")
                /\ First(log, "active_requests -= 1") < Last(log, "active_requests_gauge.set")
                /\ Last(log, "active_requests_gauge.set") < First(log, "request_counter.add")
                /\ Last(log, "active_requests_gauge.set")
                       < First(log, "response_time_histogram.record")
                /\ Precedes(log, "request_counter.add", "total_errors update")
                /\ Precedes(log, "response_time_histogram.record", "total_errors update")
                /\ Precedes(log, "total_errors update", "error_rate_gauge.set")
    /\ active_requests_gauge.set => active_requests_gauge.value = active_requests
    /\ (\E i \in Requests : Intercepted(i)) => active_requests_gauge.set

\* C11 witness: a request has ended by a response while another one is still
\* suspended at its await, and the gauge shows the one that is left.
EndedWhileOtherAwaits ==
    \E i, j \in Requests :
        /\ Intercepted(i) /\ Ended(i) /\ Returned(i)
        /\ Intercepted(j) /\ rq[j].pc = "awaiting"
        /\ active_requests_gauge = GaugeSet(1)

\* C12: the "http_request" span opened by the middleware is closed on every
\* exit path of its body, exactly once when the endpoint returns a response
\* and exactly once when it raises, so no span is open once the invocation
\* has ended.
SpanClosedOnEveryExit ==
    \A i \in Requests :
        Intercepted(i) =>
            /\ rq[i].span.name = "http_request"
            /\ Ended(i) =>
                 /\ rq[i].span.state = "ended"
                 /\ rq[i].span.ended = 1
                 /\ Count(rq[i].steps, "span.end") = 1
            /\ ~Ended(i) =>
                 /\ rq[i].span.state = "open"
                 /\ rq[i].span.ended = 0

\* C12 witness: one invocation left by `return response` and one left by the
\* endpoint's exception, each with its span ended.
SpansEndedOnBothPaths ==
    \E i, j \in Requests :
        /\ Intercepted(i) /\ Ended(i) /\ Returned(i) /\ rq[i].span.ended = 1
        /\ Intercepted(j) /\ Ended(j) /\ Raised(j) /\ rq[j].span.ended = 1

\* The bounds of C13 on the shared counters and on the error-rate gauge.
CounterBounds ==
    /\ 0 <= total_errors /\ total_errors <= total_requests
    /\ 0 <= active_requests /\ active_requests <= total_requests
    /\ error_rate_gauge.set =>
         /\ RatLeq(Rat(0, 1), error_rate_gauge.value)
         /\ RatLeq(error_rate_gauge.value, Rat(100, 1))

\* C13: in every reachable state 0 <= total_errors <= total_requests and
\* 0 <= active_requests <= total_requests; total_requests and total_errors
\* never decrease; every value published to the error-rate gauge lies
\* between 0 and 100 inclusive.
CountersBoundedAndMonotonic ==
    /\ []CounterBounds
    /\ [][ /\ total_requests' >= total_requests
           /\ total_errors' >= total_errors ]_vars

\* C13 witness: every request so far failed, so the bounds are met with
\* equality: total_errors = total_requests and the gauge reads 100.
AllRequestsFailed ==
    /\ total_requests >= 2
    /\ total_errors = total_requests
    /\ error_rate_gauge.set
    /\ RatEq(error_rate_gauge.value, Rat(100, 1))

\* Counts over a value r of rq: the requests started, the invocations that
\* ended, those that ended with a response of status >= 400, and whether
\* some endpoint raised.
StartedIn(r) == {j \in Requests : r[j].pc # "idle"}
CompletedIn(r) == {j \in Requests : r[j].pc = "done"}
FailedIn(r) ==
    {j \in CompletedIn(r) :
        /\ r[j].downstream.kind = "response"
        /\ r[j].downstream.status_code >= 400}
SomeRaisedIn(r) ==
    \E j \in StartedIn(r) :
        "downstream" \in DOMAIN r[j] /\ r[j].downstream.kind = "exception"

\* C14: at every publication of the error-rate gauge total_requests >= 1,
\* and the published value is 100 * (requests completed so far with status
\* >= 400) / (requests started so far, in flight and raised ones included);
\* with no other request in flight and no raised endpoint that is
\* errors/completed * 100.  The gauge changes at no other step.
ErrorRatePublication ==
    [][ /\ \A i \in Requests :
             (rq[i].pc = "returned" /\ rq'[i].pc = "done") =>
                 /\ total_requests' >= 1
                 /\ error_rate_gauge'.set
                 /\ RatEq(error_rate_gauge'.value,
                          Rat(100 * Cardinality(FailedIn(rq')),
                              Cardinality(StartedIn(rq'))))
                 /\ (StartedIn(rq') = CompletedIn(rq') /\ ~SomeRaisedIn(rq')) =>
                        RatEq(error_rate_gauge'.value,
                              Rat(100 * Cardinality(FailedIn(rq')),
                                  Cardinality(CompletedIn(rq'))))
        /\ error_rate_gauge' # error_rate_gauge =>
             \E i \in Requests : rq[i].pc = "returned" /\ rq'[i].pc = "done"
      ]_vars

\* C14 witness: the gauge reads 50 after a failed request completed while
\* the other request, counted in the denominator, is still at its await.
HalfRateWithRequestInFlight ==
    \E i, j \in Requests :
        /\ Intercepted(i) /\ Ended(i) /\ Returned(i)
        /\ rq[i].downstream.status_code >= 400
        /\ Intercepted(j) /\ rq[j].pc = "awaiting"
        /\ error_rate_gauge.set
        /\ RatEq(error_rate_gauge.value, Rat(50, 1))

====
